---- MODULE Spec2Model ----
(***************************************************************************)
(* FraudGuard dashboard (src/app.py): a Streamlit script that is re-run    *)
(* from top to bottom on every interaction.  A run loads the two artifacts *)
(* through st.cache_resource, reads the seven sidebar widgets, shows the   *)
(* metric row and, when the button was pressed, derives the feature        *)
(* vector, scales it, scores it and renders a panel and a gauge.           *)
(***************************************************************************)
EXTENDS Integers, Sequences, FiniteSets, TLC

(***************************************************************************)
(* Bounds of the model.                                                    *)
(***************************************************************************)
\* Executions of load_artifacts' body explored per process.
MaxLoads == 3

(***************************************************************************)
(* numpy.float32 values, as prediction_prob[0][0] is one: sign s,          *)
(* significand m < 2^24 and exponent e, value s * m * 2^e, or a NaN or an  *)
(* infinity.  A product held in a float64 keeps a longer significand.      *)
(***************************************************************************)
RECURSIVE Pow2(_)
Pow2(n) == IF n = 0 THEN 1 ELSE 2 * Pow2(n - 1)

RECURSIVE BitLen(_)
BitLen(n) == IF n = 0 THEN 0 ELSE 1 + BitLen(n \div 2)

SigBits == 24
MinExp == -149
MaxExp == 104

Fin(s, m, e) == [k |-> "fin", s |-> s, m |-> m, e |-> e]
NaN == [k |-> "nan", s |-> 1, m |-> 0, e |-> 0]
Inf(s) == [k |-> "inf", s |-> s, m |-> 0, e |-> 0]
Zero == Fin(1, 0, MinExp)
\* The value of a variable the run never assigned.
Unset == [k |-> "unset", s |-> 1, m |-> 0, e |-> 0]

\* The canonical form of m * 2^e for 0 < m < 2^24: the significand shifted
\* left as far as the exponent range allows.
RECURSIVE Normalize(_, _, _)
Normalize(s, m, e) ==
    IF m < Pow2(SigBits - 1) /\ e > MinExp
    THEN Normalize(s, 2 * m, e - 1)
    ELSE Fin(s, m, e)

\* s * P * 2^e rounded to the nearest float32, ties to even (P > 0).
RoundF32(s, P, e) ==
    LET L == BitLen(P) IN
    IF L <= SigBits THEN Normalize(s, P, e)
    ELSE LET sh == L - SigBits
             q == P \div Pow2(sh)
             r == P % Pow2(sh)
             half == Pow2(sh - 1)
             up == r > half \/ (r = half /\ q % 2 = 1)
             q1 == IF up THEN q + 1 ELSE q
             m1 == IF q1 = Pow2(SigBits) THEN Pow2(SigBits - 1) ELSE q1
             e1 == IF q1 = Pow2(SigBits) THEN e + sh + 1 ELSE e + sh
         IN  IF e1 > MaxExp THEN Inf(s) ELSE Fin(s, m1, e1)

\* The small integer n as a number of the same kind.
Num(n) == IF n = 0 THEN Zero ELSE Fin(1, n, 0)

\* x > y for two positive finite magnitudes m * 2^e, without overflow: the
\* longer binary expansion wins, equal lengths compare after alignment.
MagGt(m1, e1, m2, e2) ==
    LET t1 == BitLen(m1) + e1
        t2 == BitLen(m2) + e2
    IN  IF t1 # t2 THEN t1 > t2
        ELSE IF e1 >= e2 THEN m1 * Pow2(e1 - e2) > m2
        ELSE m1 > m2 * Pow2(e2 - e1)

\* Python's x > y on floats: false whenever a NaN is involved.
Gt(x, y) ==
    CASE x.k = "nan" \/ y.k = "nan" -> FALSE
      [] x.k = "inf" -> x.s = 1 /\ ~(y.k = "inf" /\ y.s = 1)
      [] y.k = "inf" -> y.s = -1
      [] x.m = 0 /\ y.m = 0 -> FALSE
      [] x.m = 0 -> y.s = -1
      [] y.m = 0 -> x.s = 1
      [] x.s # y.s -> x.s = 1
      [] x.s = 1 -> MagGt(x.m, x.e, y.m, y.e)
      [] OTHER -> MagGt(y.m, y.e, x.m, x.e)

Ge(x, y) ==
    /\ x.k # "nan"
    /\ y.k # "nan"
    /\ ~Gt(y, x)

(***************************************************************************)
(* State.                                                                  *)
(***************************************************************************)
VARIABLES
    modelFile,   \* 'final_fraud_model.keras' can be loaded from disk now
    scalerFile,  \* 'scaler.pkl' can be loaded from disk now
    numpy,       \* how the installed numpy types float32 * int
    cache,       \* st.cache_resource's entry for load_artifacts
    loads,       \* executions of load_artifacts' body in this process
    widgets,     \* the session's seven sidebar widget values
    view         \* what the last script run did and rendered

vars == <<modelFile, scalerFile, numpy, cache, loads, widgets, view>>

(***************************************************************************)
(* 2. LOAD MODEL & SCALER                                                  *)
(***************************************************************************)
\* A loaded object: the load that made it and how often it was refitted.
\* Python's None is the handle of no load.
None == [id |-> 0, fits |-> 0]
Handle(n) == [id |-> n, fits |-> 0]

EmptyCache == [filled |-> FALSE, model |-> None, scaler |-> None]

\* for C1: a loader that keeps whichever artifact did load
load_artifacts_partial(mOK, sOK, n) ==
    [model |-> IF mOK THEN Handle(n) ELSE None,
     scaler |-> IF mOK /\ sOK THEN Handle(n) ELSE None]

\* The body of load_artifacts: both loads inside one try, any exception
\* gives (None, None).
load_artifacts(mOK, sOK, n) ==
    IF mOK /\ sOK
    THEN [model |-> Handle(n), scaler |-> Handle(n)]
    ELSE [model |-> None, scaler |-> None]

\* The calls the body makes: joblib.load is reached only past load_model.
load_calls(mOK) ==
    IF mOK THEN <<"load_model", "joblib.load">> ELSE <<"load_model">>

\* for C7: no decorator, the body runs on every script run
cache_hit_never(c) == FALSE

\* for C9: a cache that keeps only successful loads
cache_hit_unless_failed(c) == c.filled /\ c.model # None

\* @st.cache_resource: the body runs only while nothing is cached, and
\* whatever it returned, (None, None) included, is what is cached.
cache_hit(c) == c.filled

\* model, scaler = load_artifacts(): the cache after the call.
cached_load(c, mOK, sOK, n) ==
    IF cache_hit(c) THEN c
    ELSE LET r == load_artifacts(mOK, sOK, n)
         IN  [filled |-> TRUE, model |-> r.model, scaler |-> r.scaler]

(***************************************************************************)
(* 3. SIDEBAR - INPUT PARAMETERS                                           *)
(***************************************************************************)
TypeOptions == {"CASH_OUT", "PAYMENT", "CASH_IN", "TRANSFER", "DEBIT"}
StepMin == 0
StepMax == 744
AmountMin == 0

\* The widgets' values in a new session: index=1 of the options, and each
\* widget's value argument.
Defaults ==
    [type_trans |-> "PAYMENT", step |-> 1, amount |-> 15000,
     old_bal_org |-> 50000, new_bal_org |-> 35000,
     old_bal_dest |-> 0, new_bal_dest |-> 0]

\* What the operator may pick or type, the out-of-range entries included.
StepEntries == {-1, 0, 1, 25, 744, 745}
AmountEntries == {-100, 0, 15000}
OldOrgEntries == {-100, 0, 50000}
NewOrgEntries == {-100, 0, 35000}
OldDestEntries == {-100, 0, 15000}
NewDestEntries == {-100, 0, 15000}

\* for C8: a number_input without its min_value
number_input_unbounded(v) == TRUE

\* st.sidebar.slider(..., 0, 744, 1): the positions the slider has.
slider(v) == StepMin <= v /\ v <= StepMax

\* st.number_input(..., min_value=0.0): an entry below the minimum is not
\* committed, the widget keeps its value and no run is triggered.
number_input(v) == v >= AmountMin

\* user_input_features(): the seven values the script reads, in the order
\* of its return statement.
user_input_features(w) ==
    [type_trans |-> w.type_trans, step |-> w.step, amount |-> w.amount,
     old_bal_org |-> w.old_bal_org, new_bal_org |-> w.new_bal_org,
     old_bal_dest |-> w.old_bal_dest, new_bal_dest |-> w.new_bal_dest]

(***************************************************************************)
(* 5. PREDICTION LOGIC & VISUALIZATION                                     *)
(***************************************************************************)
\* if model and scaler: both objects are truthy unless they are None.
artifacts_present(c) == c.model # None /\ c.scaler # None

\* for C5: the hour taken on a twelve-hour clock
hour_mod12(step) == step % 12

\* hour = step % 24
hour(step) == step % 24

\* for C4: the DEBIT flag also raised for the baseline type
one_hot_baseline_flagged(t) ==
    <<IF t = "CASH_OUT" THEN 1 ELSE 0,
      IF t = "DEBIT" \/ t = "CASH_IN" THEN 1 ELSE 0,
      IF t = "PAYMENT" THEN 1 ELSE 0,
      IF t = "TRANSFER" THEN 1 ELSE 0>>

\* type_CASH_OUT, type_DEBIT, type_PAYMENT, type_TRANSFER
one_hot(t) ==
    <<IF t = "CASH_OUT" THEN 1 ELSE 0,
      IF t = "DEBIT" THEN 1 ELSE 0,
      IF t = "PAYMENT" THEN 1 ELSE 0,
      IF t = "TRANSFER" THEN 1 ELSE 0>>

errorBalanceOrig(r) == r.new_bal_org + r.amount - r.old_bal_org

errorBalanceDest(r) == r.old_bal_dest + r.amount - r.new_bal_dest

\* for C3: the two balance errors in each other's place
features_swapped(r) ==
    one_hot(r.type_trans)
        \o <<errorBalanceDest(r), errorBalanceOrig(r), hour(r.step)>>

\* features = np.array([[...]]): the row handed to scaler.transform.
features(r) ==
    one_hot(r.type_trans)
        \o <<errorBalanceOrig(r), errorBalanceDest(r), hour(r.step)>>

\* scaler.transform(features) reads the fitted parameters; the scaler
\* object after the call.
scaler_transform(s) == s

\* model.predict(features_scaled) reads the weights; the model object
\* after the call.
model_predict(m) == m

\* What model.predict may return as prediction_prob[0][0]: the artifact is
\* whatever file sits at the path, so any float32.
Half == Fin(1, 8388608, -24)
One == Fin(1, 8388608, -23)
ProbOutputs ==
    { Zero,
      Fin(1, 8388608, -25),     \* 0.25
      Fin(1, 16777215, -25),    \* the float32 just below 0.5
      Half,                     \* 0.5
      Fin(1, 8388609, -24),     \* the float32 just above 0.5
      Fin(1, 8388610, -24),     \* 0.5000001 as a float32
      Fin(1, 12582912, -24),    \* 0.75
      One,                      \* 1.0
      Fin(1, 12582912, -23),    \* 1.5
      Fin(-1, 8388608, -24),    \* -0.5
      Fin(1, 16777215, 104),    \* the largest float32
      Inf(1),
      NaN }

\* risk_score = fraud_prob * 100.  A numpy that promotes by value (1.x)
\* gives a float64, which holds the product exactly; one that keeps the
\* scalar's type (2.x) gives a float32.
risk_score(p, promotion) ==
    CASE p.k = "nan" -> NaN
      [] p.k = "inf" -> Inf(p.s)
      [] p.m = 0 -> Zero
      [] promotion = "float64" -> Fin(p.s, p.m * 100, p.e)
      [] OTHER -> RoundF32(p.s, p.m * 100, p.e)

\* for C2: the threshold taken inclusively
verdict_inclusive(p) == IF Ge(p, Half) THEN "FRAUD" ELSE "SAFE"

\* if fraud_prob > 0.5: the FRAUD panel, else the SAFE panel.
verdict(p) == IF Gt(p, Half) THEN "FRAUD" ELSE "SAFE"

Red == "#ff4b4b"
Green == "#00cc96"

\* for C10: the gauge bar coloured from 50 upwards
bar_color_inclusive(risk) == IF Ge(risk, Num(50)) THEN Red ELSE Green

\* 'bar': {'color': "#ff4b4b" if risk_score > 50 else "#00cc96"}
bar_color(risk) == IF Gt(risk, Num(50)) THEN Red ELSE Green

NoGauge == [shown |-> FALSE, value |-> Unset, color |-> "", axis |-> <<0, 0>>]

ModelFilesNotFound == "Model files not found. Please upload .keras and .pkl files."

\* The page before any script run.
Blank ==
    [run |-> FALSE, button |-> FALSE, trace |-> <<>>, raw |-> Defaults,
     hour_val |-> 0,
     error |-> "", scored |-> FALSE, features |-> <<>>, fraud_prob |-> Unset,
     panel |-> "none", panel_pct |-> Unset, gauge |-> NoGauge]

\* One execution of the script: c and calls are the cache after
\* load_artifacts() and the calls that made, w the session's widgets,
\* pressed the button's value and p what model.predict returns if called.
script_run(c, calls, w, pressed, p, promotion) ==
    LET raw == user_input_features(w)
        base == [Blank EXCEPT !.run = TRUE, !.button = pressed,
                              !.trace = calls, !.raw = raw,
                              !.hour_val = raw.step % 24]
        risk == risk_score(p, promotion)
    IN  IF ~pressed THEN base
        ELSE IF artifacts_present(c)
        THEN [base EXCEPT
                !.trace = calls \o <<"scaler.transform", "model.predict">>,
                !.scored = TRUE,
                !.features = features(raw),
                !.fraud_prob = p,
                !.panel = verdict(p),
                !.panel_pct = risk,
                !.gauge = [shown |-> TRUE, value |-> risk,
                           color |-> bar_color(risk), axis |-> <<0, 100>>]]
        ELSE [base EXCEPT !.error = ModelFilesNotFound]

(***************************************************************************)
(* Behaviour: Streamlit runs the whole script once per interaction.        *)
(***************************************************************************)
Promotions == {"float64", "float32"}

Init ==
    /\ modelFile \in BOOLEAN
    /\ scalerFile \in BOOLEAN
    /\ numpy \in Promotions
    /\ cache = EmptyCache
    /\ loads = 0
    /\ widgets = Defaults
    /\ view = Blank

\* A script run of the session with widget values w and the button's value
\* pressed, from load_artifacts() to the last render; probs is what
\* model.predict may return.
Run(w, pressed, probs) ==
    /\ cache_hit(cache) \/ loads < MaxLoads
    /\ LET hit == cache_hit(cache)
           c == cached_load(cache, modelFile, scalerFile, loads + 1)
           calls == IF hit THEN <<>> ELSE load_calls(modelFile)
           outs == IF pressed /\ artifacts_present(c)
                   THEN probs ELSE {Unset}
       IN  \E p \in outs :
             LET v == script_run(c, calls, w, pressed, p, numpy) IN
             /\ view' = v
             /\ cache' = IF v.scored
                         THEN [c EXCEPT !.scaler = scaler_transform(c.scaler),
                                        !.model = model_predict(c.model)]
                         ELSE c
             /\ loads' = IF hit THEN loads ELSE loads + 1
    /\ widgets' = w
    /\ UNCHANGED <<modelFile, scalerFile, numpy>>

\* A browser opens or reloads the page: a new session, widgets at their
\* defaults, first run of the script.
OpenSession ==
    /\ Run(Defaults, FALSE, {Unset})

\* The operator changes one sidebar widget; a committed change re-runs the
\* script with the button unpressed.
ChangeType ==
    /\ view.run
    /\ \E v \in TypeOptions :
         /\ v # widgets.type_trans
         /\ Run([widgets EXCEPT !.type_trans = v], FALSE, {Unset})

ChangeStep(entries) ==
    /\ view.run
    /\ \E v \in entries :
         /\ slider(v)
         /\ v # widgets.step
         /\ Run([widgets EXCEPT !.step = v], FALSE, {Unset})

ChangeAmount ==
    /\ view.run
    /\ \E v \in AmountEntries :
         /\ number_input(v)
         /\ v # widgets.amount
         /\ Run([widgets EXCEPT !.amount = v], FALSE, {Unset})

ChangeOldBalOrg ==
    /\ view.run
    /\ \E v \in OldOrgEntries :
         /\ number_input(v)
         /\ v # widgets.old_bal_org
         /\ Run([widgets EXCEPT !.old_bal_org = v], FALSE, {Unset})

ChangeNewBalOrg ==
    /\ view.run
    /\ \E v \in NewOrgEntries :
         /\ number_input(v)
         /\ v # widgets.new_bal_org
         /\ Run([widgets EXCEPT !.new_bal_org = v], FALSE, {Unset})

ChangeOldBalDest ==
    /\ view.run
    /\ \E v \in OldDestEntries :
         /\ number_input(v)
         /\ v # widgets.old_bal_dest
         /\ Run([widgets EXCEPT !.old_bal_dest = v], FALSE, {Unset})

ChangeNewBalDest ==
    /\ view.run
    /\ \E v \in NewDestEntries :
         /\ number_input(v)
         /\ v # widgets.new_bal_dest
         /\ Run([widgets EXCEPT !.new_bal_dest = v], FALSE, {Unset})

\* The operator presses RUN FRAUD ANALYSIS: a run with st.button(...) true.
PressButton(probs) ==
    /\ view.run
    /\ Run(widgets, TRUE, probs)

\* The environment: an artifact file appears on disk or goes away.
ModelFileChange ==
    /\ modelFile' = ~modelFile
    /\ UNCHANGED <<scalerFile, numpy, cache, loads, widgets, view>>

ScalerFileChange ==
    /\ scalerFile' = ~scalerFile
    /\ UNCHANGED <<modelFile, numpy, cache, loads, widgets, view>>

\* The artifacts' lifecycle and the scorer's outputs: sessions, re-runs by
\* a widget change, button presses, and the files coming and going.
Next ==
    \/ OpenSession
    \/ ChangeType
    \/ PressButton(ProbOutputs)
    \/ ModelFileChange
    \/ ScalerFileChange

Spec == Init /\ [][Next]_vars

\* The sidebar in full, the artifacts in place, a scorer with two outputs.
ProbSample == {Fin(1, 8388608, -25), Fin(1, 12582912, -24)}

InitFeatures ==
    /\ Init
    /\ modelFile
    /\ scalerFile
    /\ numpy = "float32"

NextFeatures ==
    \/ OpenSession
    \/ ChangeType
    \/ ChangeStep(StepEntries)
    \/ ChangeAmount
    \/ ChangeOldBalOrg
    \/ ChangeNewBalOrg
    \/ ChangeOldBalDest
    \/ ChangeNewBalDest
    \/ PressButton(ProbSample)

SpecFeatures == InitFeatures /\ [][NextFeatures]_vars

\* The slider over its whole range, moved a position at a time or to
\* either end, with an attempt past each end.
SliderMoves == {widgets.step - 1, widgets.step + 1, StepMin, StepMax, 25}

NextStep ==
    \/ OpenSession
    \/ ChangeStep(SliderMoves)
    \/ PressButton(ProbSample)

SpecStep == InitFeatures /\ [][NextStep]_vars

(***************************************************************************)
(* Properties.                                                             *)
(***************************************************************************)
\* The last run made the call named c.
Called(c) == \E i \in 1 .. Len(view.trace) : view.trace[i] = c

BothPresent == cache.model # None /\ cache.scaler # None

Degraded == cache.filled /\ cache.model = None /\ cache.scaler = None

\* C1: load_artifacts yields both handles or neither; a scoring pass
\* happens only with both present; a button press without them shows the
\* 'Model files not found' error and calls neither scaler.transform nor
\* model.predict.
C1_ArtifactsJointlyRequired ==
    /\ cache.filled => ((cache.model = None) <=> (cache.scaler = None))
    /\ view.scored => BothPresent
    /\ (view.button /\ ~BothPresent) =>
          /\ view.error = ModelFilesNotFound
          /\ ~view.scored
          /\ ~Called("scaler.transform")
          /\ ~Called("model.predict")
          /\ view.panel = "none"
          /\ ~view.gauge.shown

C1_Witness ==
    /\ cache.filled
    /\ cache.model = None
    /\ view.button
    /\ view.error = ModelFilesNotFound
    /\ ~Called("model.predict")

\* C2: a scoring pass renders exactly one panel, FRAUD exactly when the
\* probability is strictly above 0.5: 0.5 itself renders SAFE, the next
\* float32 above it FRAUD.
C2_StrictThreshold ==
    /\ view.panel \in {"none", "FRAUD", "SAFE"}
    /\ view.scored <=> view.panel # "none"
    /\ view.scored =>
          /\ (view.panel = "FRAUD") <=> Gt(view.fraud_prob, Fin(1, 8388608, -24))
          /\ view.fraud_prob = Fin(1, 8388608, -24) => view.panel = "SAFE"
          /\ view.fraud_prob = Fin(1, 8388609, -24) => view.panel = "FRAUD"

C2_Witness ==
    /\ view.scored
    /\ view.fraud_prob = Fin(1, 8388609, -24)
    /\ view.panel = "FRAUD"

\* C3: the row passed to the scaler is [isCashOut, isDebit, isPayment,
\* isTransfer, newBalanceOrig + amount - oldBalanceOrig, oldBalanceDest +
\* amount - newBalanceDest, step mod 24] of the operator's values; the
\* default PAYMENT transaction gives [0,0,1,0,0,15000,1].
C3_FeatureVector ==
    view.scored =>
      /\ view.features =
            << IF widgets.type_trans = "CASH_OUT" THEN 1 ELSE 0,
               IF widgets.type_trans = "DEBIT" THEN 1 ELSE 0,
               IF widgets.type_trans = "PAYMENT" THEN 1 ELSE 0,
               IF widgets.type_trans = "TRANSFER" THEN 1 ELSE 0,
               widgets.new_bal_org + widgets.amount - widgets.old_bal_org,
               widgets.old_bal_dest + widgets.amount - widgets.new_bal_dest,
               widgets.step % 24 >>
      /\ widgets = [type_trans |-> "PAYMENT", step |-> 1, amount |-> 15000,
                    old_bal_org |-> 50000, new_bal_org |-> 35000,
                    old_bal_dest |-> 0, new_bal_dest |-> 0]
            => view.features = <<0, 0, 1, 0, 0, 15000, 1>>

C3_Witness ==
    /\ view.scored
    /\ widgets.type_trans = "PAYMENT"
    /\ widgets.amount = 15000
    /\ view.features = <<0, 0, 1, 0, 0, 15000, 1>>

\* C4: at most one of the four type flags is 1: each of CASH_OUT, DEBIT,
\* PAYMENT, TRANSFER raises its own flag only, CASH_IN none.
C4_OneHot ==
    view.scored =>
      LET f == SubSeq(view.features, 1, 4)
          t == widgets.type_trans
      IN  /\ \A i \in 1 .. 4 : f[i] \in {0, 1}
          /\ f[1] + f[2] + f[3] + f[4] <= 1
          /\ t = "CASH_OUT" => f = <<1, 0, 0, 0>>
          /\ t = "DEBIT" => f = <<0, 1, 0, 0>>
          /\ t = "PAYMENT" => f = <<0, 0, 1, 0>>
          /\ t = "TRANSFER" => f = <<0, 0, 0, 1>>
          /\ t = "CASH_IN" => f = <<0, 0, 0, 0>>

C4_Witness ==
    /\ view.scored
    /\ widgets.type_trans = "CASH_IN"
    /\ SubSeq(view.features, 1, 4) = <<0, 0, 0, 0>>

\* C5: for every step of the slider's range 0..744 the hour feature is
\* step mod 24 and lies in 0..23: 0 gives 0, 25 gives 1, 744 gives 0.
C5_HourOfDay ==
    /\ widgets.step \in 0 .. 744
    /\ view.scored =>
          /\ view.features[7] \in 0 .. 23
          /\ \E d \in 0 .. 31 : widgets.step = 24 * d + view.features[7]
          /\ widgets.step = 0 => view.features[7] = 0
          /\ widgets.step = 25 => view.features[7] = 1
          /\ widgets.step = 744 => view.features[7] = 0

C5_Witness ==
    /\ view.scored
    /\ widgets.step = 744
    /\ view.features[7] = 0

\* A probability in [0,1]: finite, not negative, at most 1.
ValidProbability(p) ==
    /\ p.k = "fin"
    /\ Ge(p, Zero)
    /\ Ge(One, p)

\* C6: a probability outside [0,1] or not finite is rejected at render
\* time: no panel and no gauge for it, so every rendered risk score lies
\* in [0,100].
C6_InvalidProbabilityRejected ==
    /\ (view.scored /\ ~ValidProbability(view.fraud_prob)) =>
          /\ view.panel = "none"
          /\ ~view.gauge.shown
    /\ view.gauge.shown =>
          /\ Ge(view.gauge.value, Num(0))
          /\ Ge(Num(100), view.gauge.value)

\* C7: the body of load_artifacts runs at most once per process, in the
\* run that finds the cache empty; from then on every run leaves the
\* cached model and scaler as they are, a scoring pass included.
C7_LoadedOnce ==
    [][ /\ loads' <= 1
        /\ loads' # loads => (~cache.filled /\ Called("load_model")')
        /\ cache.filled =>
              /\ cache' = cache
              /\ loads' = loads ]_vars

C7_Witness ==
    /\ loads = 1
    /\ BothPresent
    /\ view.scored
    /\ Called("model.predict")
    /\ ~Called("load_model")

\* C8: a run that reaches feature engineering reads seven values that
\* lie in their declared domains and are the ones the operator supplied;
\* an entry outside a domain never gets there, clamped or not.
C8_InputsInDomain ==
    view.scored =>
      /\ view.raw = widgets
      /\ view.raw.type_trans \in
            {"CASH_OUT", "PAYMENT", "CASH_IN", "TRANSFER", "DEBIT"}
      /\ view.raw.step \in 0 .. 744
      /\ view.raw.amount >= 0
      /\ view.raw.old_bal_org >= 0
      /\ view.raw.new_bal_org >= 0
      /\ view.raw.old_bal_dest >= 0
      /\ view.raw.new_bal_dest >= 0

C8_Witness ==
    /\ view.scored
    /\ view.raw.amount = 0
    /\ view.raw.step = 744
    /\ view.raw.new_bal_dest = 15000

\* C9: once the first load has failed, every later run sees model =
\* scaler = None, whatever happens to the files: no further load, no
\* scoring pass, and the error on each button press.
C9_DegradedAbsorbing ==
    [][ Degraded =>
          /\ Degraded'
          /\ loads' = loads
          /\ ~view'.scored
          /\ view'.button => view'.error = ModelFilesNotFound ]_vars

C9_Witness ==
    /\ Degraded
    /\ modelFile
    /\ scalerFile
    /\ view.button
    /\ view.error = ModelFilesNotFound
    /\ ~Called("load_model")

\* C10: in a scoring pass the gauge bar is red exactly when the FRAUD
\* panel is rendered and green exactly when the SAFE panel is, at 0.5
\* too; the gauge and the panel show the same risk score.
C10_GaugeAgreesWithPanel ==
    view.scored =>
      /\ view.gauge.shown
      /\ view.gauge.color \in {"#ff4b4b", "#00cc96"}
      /\ (view.gauge.color = "#ff4b4b") <=> (view.panel = "FRAUD")
      /\ (view.gauge.color = "#00cc96") <=> (view.panel = "SAFE")
      /\ view.gauge.value = view.panel_pct
      /\ view.fraud_prob = Fin(1, 8388608, -24) =>
            (view.gauge.color = "#00cc96" /\ view.panel = "SAFE")

C10_Witness ==
    /\ view.scored
    /\ view.fraud_prob = Fin(1, 8388608, -24)
    /\ view.gauge.color = "#00cc96"
    /\ view.panel = "SAFE"
====
